---- MODULE Spec2Model ----
(***************************************************************************)
(* A model of the trafficSimulator core: Vehicle (vehicle.py),             *)
(* VehicleGenerator (vehicle_generator.py), Segment (geometry/segment.py)  *)
(* and the Simulation loop (simulation.py).                                *)
(*                                                                         *)
(* Numbers.  The program computes in floating point; the model computes    *)
(* on the integer grid: lengths in metres, times in seconds, and every     *)
(* quotient of the source rounded to the grid by Quot (toward zero).  The  *)
(* time step dt is an attribute of Simulation and is drawn from DtSet;     *)
(* the steps are even so that 0.5*a*dt*dt stays on the grid.  Python's     *)
(* None for a timestamp is NoTime.  Segment indices and                    *)
(* current_road_index are 0-based as in the source; sequences are 1-based, *)
(* hence the "+ 1" where a Python list is indexed.                         *)
(*                                                                         *)
(* Specifications.  Spec is a Simulation on a two-segment network with one *)
(* generator; SpecSetup is the same loop after set-up calls with any lane  *)
(* count and any rate; SpecLoop has an itinerary that takes a segment      *)
(* twice in a row; SpecCar drives one Vehicle's lane decision and update   *)
(* on its own; SpecCurve probes one curve's find_t and                     *)
(* find_normalized_path.                                                   *)
(***************************************************************************)
EXTENDS Integers, Sequences, FiniteSets, TLC

\* ------------------------------------------------------------------ bounds
MaxSteps == 3     \* update() is called at most this many times
MaxId == 3        \* at most this many Vehicle objects are ever constructed

\* ------------------------------------------------------------------- state
VARIABLES
    segments,           \* Simulation.segments
    vehicles,           \* Simulation.vehicles: id -> Vehicle
    vehicle_generator,  \* Simulation.vehicle_generator
    t,                  \* Simulation.t
    frame_count,        \* Simulation.frame_count
    dt,                 \* Simulation.dt
    departures,         \* Simulation.departures
    arrivals,           \* Simulation.arrivals
    pc,                 \* where Simulation.update is: idle (not running),
                        \* exit (the exit/lane-change loop), gen (the
                        \* generator loop), end (the last two lines),
                        \* raised (an exception left the call)
    idx,                \* the position of the running loop, 1-based
    nextId,             \* the next fresh Vehicle id (uuid4 never repeats)
    \* history, observed and never read by the program:
    stepStart,          \* vehicles and queues when the running step began
    dynLog,             \* the Vehicle.update calls of the running step
    exitDone,           \* segments whose exit check ran in this step
    laneEvald,          \* vehicles the lane-change loop visited in this step
    handedOver,         \* [id, from, to] hand-overs of this step
    lastTick,           \* what the latest generator tick did
    discarded,          \* ids of candidates dropped by a generator
    depIds,             \* depIds[i] is the vehicle of departures[i]
    arrIds,             \* arrIds[i] is the vehicle of arrivals[i]
    wasFollower,        \* vehicles that were ever updated with a leader
    \* a Vehicle driven on its own, outside a Simulation:
    car,                \* the Vehicle
    max_lanes,          \* the max_lanes its caller passes
    lane_occupancy,     \* the lane_occupancy of the latest decision call
    updateCount,        \* Vehicle.update calls made on it so far
    sinceChange,        \* how often the decision procedure moved it and
                        \* the Vehicle.update calls since (history)
    \* a curve segment probed on its own:
    curve,              \* the Segment: its speed profile and its length
    call,               \* the latest call made on it and its arguments
    result              \* what that call returned

\* The variables of a Simulation, of the lone Vehicle, of the lone curve.
simVars == << segments, vehicles, vehicle_generator, t, frame_count, dt,
              departures, arrivals, pc, idx, nextId, stepStart, dynLog,
              exitDone, laneEvald, handedOver, lastTick, discarded, depIds,
              arrIds, wasFollower >>

carVars == << car, max_lanes, lane_occupancy, updateCount, sinceChange >>

curveVars == << curve, call, result >>

vars == << simVars, carVars, curveVars >>

hist == << stepStart, dynLog, exitDone, laneEvald, handedOver, lastTick >>

\* ------------------------------------------------------- program constants
NoTime == -1            \* departure_time = None / arrival_time = None
NoLeaderGap == 9999     \* gap when there is no leader
GapFloorInv == 10       \* max(gap, 0.1): the floor 0.1 is 1/GapFloorInv
HashModulus == 20       \* hash(veh_id) % 20 == 0

\* ----------------------------------------------------------------- helpers
Max(a, b) == IF a >= b THEN a ELSE b
Abs(a) == IF a >= 0 THEN a ELSE -a

\* n / d of the source, rounded toward zero onto the grid (d # 0).
Quot(n, d) ==
    LET q == Abs(n) \div Abs(d)
    IN  IF (n >= 0) = (d > 0) THEN q ELSE -q

\* np.sqrt / math.sqrt on the grid: the largest r with r*r <= n.
ISqrt(n) == CHOOSE r \in 0..Max(n, 0) : r * r <= Max(n, 0) /\ (r + 1) * (r + 1) > Max(n, 0)

Pow4(n) == n * n * n * n

\* dict.get(key, default) and the "attr in config" test of the setattr loop.
Get(config, key, default) == IF key \in DOMAIN config THEN config[key] ELSE default

Range(s) == {s[i] : i \in 1..Len(s)}

RECURSIVE SumSeq(_)
SumSeq(s) == IF s = <<>> THEN 0 ELSE Head(s) + SumSeq(Tail(s))

\* ----------------------------------------------------------------- Vehicle
\* The random draws of Vehicle._initialize_defaults, one record per draw.
\* (l >= 3.5, s0 >= 2, T in [0.8, 1.2], v_max >= 10, a_max >= 0.5,
\* b_max >= 3.5, v in [12, 18], rounded to the grid.)
Samples ==
    { [l |-> 4, s0 |-> 4, T |-> 1, v_max |-> 16, a_max |-> 1, b_max |-> 4, v |-> 12] }

\* hash(veh_id) % 20 == 0 is fixed for the life of a Vehicle (its id is a
\* uuid4 drawn at construction): hmod is the value of hash(id) % 20, of
\* which only "zero or not" is ever read.
HashMods == {0, 1}

\* hash(veh_id) % 20 == 0
HashHit(veh) == veh.hmod % HashModulus = 0

\* Vehicle.__init__: the defaults, then every key of config overwrites its
\* attribute, then lane = config.get('lane', 0).
Vehicle(config, id, sample, hmod) ==
    [ id |-> id,
      hmod |-> hmod,
      l |-> Get(config, "l", sample.l),
      s0 |-> Get(config, "s0", sample.s0),
      T |-> Get(config, "T", sample.T),
      v_max |-> Get(config, "v_max", sample.v_max),
      a_max |-> Get(config, "a_max", sample.a_max),
      b_max |-> Get(config, "b_max", sample.b_max),
      path |-> Get(config, "path", <<>>),
      current_road_index |-> Get(config, "current_road_index", 0),
      x |-> Get(config, "x", 0),
      v |-> Get(config, "v", sample.v),
      a |-> Get(config, "a", 0),
      stopped |-> Get(config, "stopped", FALSE),
      departure_time |-> Get(config, "departure_time", NoTime),
      arrival_time |-> Get(config, "arrival_time", NoTime),
      lane_change_timer |-> Get(config, "lane_change_timer", 0),
      lane_change_cooldown |-> Get(config, "lane_change_cooldown", 1),
      lane |-> Get(config, "lane", 0) ]

\* The leader argument of Vehicle.update when it is None.
NoLead == [none |-> TRUE]
HasLead(lead) == lead # NoLead

\* Mutant of Kinematic: the new_v < 0 branch is missing.
KinematicNoHalt(self, step) ==
    << self.x + self.v * step + (self.a * step * step) \div 2, self.v + self.a * step >>

\* Mutant of Kinematic: the halt position has the wrong sign,
\* new_x = x + 0.5 * v**2 / a.
KinematicSignSlip(self, step) ==
    LET new_v == self.v + self.a * step
    IN  IF new_v < 0
        THEN << IF self.a = 0 THEN self.x
                ELSE self.x + Quot(self.v * self.v, 2 * self.a), 0 >>
        ELSE << self.x + self.v * step + (self.a * step * step) \div 2, new_v >>

\* Kinematic step of Vehicle.update: <<new_x, new_v>> before the clamp.
Kinematic(self, step) ==
    LET new_v == self.v + self.a * step
    IN  IF new_v < 0
        THEN \* new_x = x - 0.5 * v**2 / a  (a # 0 whenever v >= 0)
             << IF self.a = 0 THEN self.x
                ELSE self.x - Quot(self.v * self.v, 2 * self.a), 0 >>
        ELSE << self.x + self.v * step + (self.a * step * step) \div 2, new_v >>

\* Mutant of SafetyClamp: the follower's minimum gap s0 is left out.
SafetyClampNoGap(self, lead, kin) ==
    IF HasLead(lead) /\ kin[1] > lead.x - lead.l
    THEN << lead.x - lead.l, lead.v >>
    ELSE kin

\* Collision avoidance of Vehicle.update: clip position and velocity.
SafetyClamp(self, lead, kin) ==
    IF HasLead(lead) /\ kin[1] > lead.x - lead.l - self.s0
    THEN << lead.x - lead.l - self.s0, lead.v >>
    ELSE kin

\* IDM acceleration of Vehicle.update, from the already updated x and v:
\*   a_max * (1 - (v / v_max)**4 - (s_star / max(gap, 0.1))**2)
\* each quotient rounded to the grid.
IdmAccel(self, lead, x, v) ==
    LET lv     == IF HasLead(lead) THEN lead.v ELSE 0
        s_star == self.s0 + Max(0, self.T * v
                      + Quot((v - lv) * v, 2 * ISqrt(self.a_max * self.b_max)))
        gap    == IF HasLead(lead) THEN lead.x - x - lead.l ELSE NoLeaderGap
        \* max(gap, 0.1) as the fraction gnum / gden
        gnum   == IF gap >= 1 THEN gap ELSE 1
        gden   == IF gap >= 1 THEN 1 ELSE GapFloorInv
    IN  self.a_max
          - Quot(self.a_max * Pow4(v), Pow4(self.v_max))
          - Quot(self.a_max * s_star * s_star * gden * gden, gnum * gnum)

\* Vehicle.update(lead, dt)
VehicleUpdate(self, lead, step) ==
    LET timer == Max(0, self.lane_change_timer - step)
        new   == SafetyClamp(self, lead, Kinematic(self, step))
        acc   == IF self.stopped
                 THEN -Quot(self.b_max * new[2], self.v_max)
                 ELSE IdmAccel(self, lead, new[1], new[2])
    IN  [self EXCEPT !.lane_change_timer = timer,
                     !.x = new[1], !.v = new[2], !.a = acc]

\* Vehicle.change_lane(direction)
ChangeLane(self, direction) ==
    [self EXCEPT !.lane = IF self.lane + direction < 0 THEN 0
                          ELSE self.lane + direction]

\* ------------------------------------------- Vehicle.update_lane_decision
\* accel_if_lane's value and the gains are kept in units of 1/AccScale.
AccScale == 16

\* lane_occupancy.get(lane, [])
Occupants(occupancy, ln) == Get(occupancy, ln, <<>>)

\* lane_free(target_lane): no other occupant within safety_gap = self.s0.
LaneFree(self, occupancy, target_lane) ==
    \A i \in 1..Len(Occupants(occupancy, target_lane)) :
       LET other == Occupants(occupancy, target_lane)[i]
       IN  other.id = self.id \/ Abs(other.x - self.x) >= self.s0

\* min([o for o in others if o.x > self.x], key=lambda v: v.x, default=None):
\* the first of the occupants ahead with the smallest x.
LaneLead(self, others) ==
    LET ahead == {i \in 1..Len(others) : others[i].x > self.x}
    IN  IF ahead = {} THEN NoLead
        ELSE others[CHOOSE i \in ahead :
                       \A j \in ahead :
                          \/ others[i].x < others[j].x
                          \/ others[i].x = others[j].x /\ i <= j]

\* accel_if_lane(lane), in units of 1/AccScale.
AccelIfLane(self, occupancy, ln) ==
    LET lead   == LaneLead(self, Occupants(occupancy, ln))
        lv     == IF HasLead(lead) THEN lead.v ELSE 0
        gap    == IF HasLead(lead) THEN lead.x - self.x - lead.l
                  ELSE NoLeaderGap
        s_star == self.s0 + Max(0, self.T * self.v
                      + Quot((self.v - lv) * self.v,
                             2 * ISqrt(self.a_max * self.b_max)))
        gnum   == IF gap >= 1 THEN gap ELSE 1
        gden   == IF gap >= 1 THEN 1 ELSE GapFloorInv
    IN  AccScale * self.a_max
          - Quot(AccScale * self.a_max * Pow4(self.v), Pow4(self.v_max))
          - Quot(AccScale * self.a_max * s_star * s_star * gden * gden,
                 gnum * gnum)

\* Mutant of CoolingDown: the timer is not looked at.
CoolingDownNever(self) == FALSE

\* "if self.lane_change_timer > 0: return"
CoolingDown(self) == self.lane_change_timer > 0

\* Mutant of CandidateLanes: the lane above is a candidate whatever
\* max_lanes is.
CandidateLanesNoTop(self, lanes) ==
    (IF self.lane > 0 THEN <<self.lane - 1>> ELSE <<>>) \o <<self.lane + 1>>

\* candidate_lanes
CandidateLanes(self, lanes) ==
    (IF self.lane > 0 THEN <<self.lane - 1>> ELSE <<>>)
    \o (IF self.lane < lanes - 1 THEN <<self.lane + 1>> ELSE <<>>)

\* "if gain_right > -0.5", the gain in units of 1/AccScale.
RightGainAccepted(gain_right) == 2 * gain_right > -AccScale

\* "for ln in candidate_lanes": the lane of the strictly largest gain over
\* best_gain among the free candidates.
RECURSIVE BestLane(_, _, _, _, _)
BestLane(self, occupancy, candidates, best_lane, best_gain) ==
    IF candidates = <<>> THEN best_lane
    ELSE LET ln     == Head(candidates)
             gain   == AccelIfLane(self, occupancy, ln)
                         - AccelIfLane(self, occupancy, self.lane)
             better == LaneFree(self, occupancy, ln) /\ gain > best_gain
         IN  BestLane(self, occupancy, Tail(candidates),
                      IF better THEN ln ELSE best_lane,
                      IF better THEN gain ELSE best_gain)

\* Vehicle.update_lane_decision(max_lanes, lane_occupancy)
UpdateLaneDecision(self, lanes, occupancy) ==
    LET right      == self.lane - 1
        gain_right == AccelIfLane(self, occupancy, right)
                        - AccelIfLane(self, occupancy, self.lane)
        best_lane  == BestLane(self, occupancy, CandidateLanes(self, lanes),
                               self.lane, 0)
        moved(ln)  == [self EXCEPT !.lane = ln,
                                   !.lane_change_timer = self.lane_change_cooldown]
    IN  IF CoolingDown(self) THEN self
        ELSE IF /\ self.lane > 0
                /\ LaneFree(self, occupancy, right)
                /\ RightGainAccepted(gain_right)
             THEN moved(right)
        ELSE IF best_lane # self.lane THEN moved(best_lane)
        ELSE self

\* ----------------------------------------------------------------- Segment
\* distance.euclidean(p, q)
Euclidean(p, q) ==
    ISqrt((q[1] - p[1]) * (q[1] - p[1]) + (q[2] - p[2]) * (q[2] - p[2]))

\* Segment.get_length: the sum of the distances of consecutive points.
GetLength(seg) ==
    SumSeq([i \in 1..(Len(seg.points) - 1) |->
                Euclidean(seg.points[i], seg.points[i + 1])])

\* Segment.__init__(points, num_lanes)
Segment(points, num_lanes) ==
    [points |-> points, num_lanes |-> num_lanes, vehicles |-> <<>>]

\* Segment.add_vehicle: append the vehicle's id to the queue.
SegmentAddVehicle(seg, veh) == [seg EXCEPT !.vehicles = Append(@, veh.id)]

\* ------------------------------------------------------ Segment: arc length
\* Progress 1 on the grid of the curve.
One(crv) == Len(crv.cells)

\* f(t) of find_t: quad(self.abs_f, a, t), for a <= t.
RECURSIVE ArcLength(_, _, _)
ArcLength(crv, a, progress) ==
    IF progress <= a THEN 0
    ELSE crv.cells[progress] + ArcLength(crv, a, progress - 1)

\* (compute_x(t), compute_y(t)): the place on the curve, with the progress
\* it belongs to.
Position(crv, progress) ==
    [progress |-> progress, at |-> ArcLength(crv, 0, progress)]

\* The while loop of find_t from lower_bound and upper_bound on: the
\* midpoint is rounded to the grid.  A pass that leaves both bounds as
\* they were is followed by the same pass for ever: the call does not
\* return (diverged).
RECURSIVE Bisect(_, _, _, _, _, _)
Bisect(crv, a, L, epsilon, lower_bound, upper_bound) ==
    LET mid_point == (lower_bound + upper_bound) \div 2
        integ     == ArcLength(crv, a, mid_point)
        lower     == IF integ < L THEN mid_point ELSE lower_bound
        upper     == IF integ < L THEN upper_bound ELSE mid_point
    IN  IF Abs(integ - L) <= epsilon
        THEN [t |-> mid_point, diverged |-> FALSE]
        ELSE IF lower = lower_bound /\ upper = upper_bound
             THEN [t |-> mid_point, diverged |-> TRUE]
             ELSE Bisect(crv, a, L, epsilon, lower, upper)

\* Segment.find_t(a, L, epsilon)
FindT(crv, a, L, epsilon) ==
    IF ArcLength(crv, a, One(crv)) < L
    THEN [t |-> One(crv), diverged |-> FALSE]
    ELSE Bisect(crv, a, L, epsilon, a, One(crv))

\* epsilon = 0.01 of find_normalized_path, the unit of length of a curve.
PathEpsilon == 1

\* Mutant of Probes: the loop goes on after a probe that returned 1.
RECURSIVE ProbesNoBreak(_, _, _, _, _)
ProbesNoBreak(crv, target_l, a, left, normalized_path) ==
    IF left = 0 THEN [points |-> normalized_path, diverged |-> FALSE]
    ELSE LET probe == FindT(crv, a, target_l, PathEpsilon)
             path  == Append(normalized_path, Position(crv, probe.t))
         IN  IF probe.diverged
             THEN [points |-> normalized_path, diverged |-> TRUE]
             ELSE ProbesNoBreak(crv, target_l, probe.t, left - 1, path)

\* "for i in range(CURVE_RESOLUTION-1)" with left passes to go.
RECURSIVE Probes(_, _, _, _, _)
Probes(crv, target_l, a, left, normalized_path) ==
    IF left = 0 THEN [points |-> normalized_path, diverged |-> FALSE]
    ELSE LET probe == FindT(crv, a, target_l, PathEpsilon)
             path  == Append(normalized_path, Position(crv, probe.t))
         IN  IF probe.diverged
             THEN [points |-> normalized_path, diverged |-> TRUE]
             ELSE IF probe.t = One(crv)
                  THEN [points |-> path, diverged |-> FALSE]
                  ELSE Probes(crv, target_l, probe.t, left - 1, path)

\* Segment.find_normalized_path(CURVE_RESOLUTION)
FindNormalizedPath(crv, CURVE_RESOLUTION) ==
    Probes(crv, Quot(crv.length, CURVE_RESOLUTION - 1), 0,
           CURVE_RESOLUTION - 1, << Position(crv, 0) >>)

\* -------------------------------------------------------- VehicleGenerator
\* VehicleGenerator.pick_vehicle: r = randint(1, total + 1), then the first
\* template at which the running r - weight falls to 0 or below.
RECURSIVE PickConfig(_, _)
PickConfig(templates, r) ==
    IF r - Head(templates)[1] <= 0
    THEN Head(templates)[2]
    ELSE PickConfig(Tail(templates), r - Head(templates)[1])

TotalWeight(templates) == SumSeq([i \in 1..Len(templates) |-> templates[i][1]])

PickVehicle(gen, r, id, sample, hmod) ==
    Vehicle(PickConfig(gen.vehicles, r), id, sample, hmod)

\* The lane scan of VehicleGenerator.update: the vehicles of the entry
\* segment in lane ln, in queue order.
LaneVehicles(vs, seg, ln) ==
    SelectSeq([i \in 1..Len(seg.vehicles) |-> vs[seg.vehicles[i]]],
              LAMBDA veh : veh.lane = ln)

\* Mutant of LaneHasRoom: the candidate's length is left out.
LaneHasRoomNoLength(vs, seg, ln, cand) ==
    LET lane_vehicles == LaneVehicles(vs, seg, ln)
    IN  \/ lane_vehicles = <<>>
        \/ lane_vehicles[Len(lane_vehicles)].x > cand.s0

\* "not lane_vehicles or lane_vehicles[-1].x > s0 + l"
LaneHasRoom(vs, seg, ln, cand) ==
    LET lane_vehicles == LaneVehicles(vs, seg, ln)
    IN  \/ lane_vehicles = <<>>
        \/ lane_vehicles[Len(lane_vehicles)].x > cand.s0 + cand.l

NoLane == -1

\* The first lane with room (the loop breaks at it), or NoLane (None).
ChosenLane(vs, seg, cand) ==
    LET free == {ln \in 0..(seg.num_lanes - 1) : LaneHasRoom(vs, seg, ln, cand)}
    IN  IF free = {} THEN NoLane
        ELSE CHOOSE ln \in free : \A other \in free : ln <= other

\* VehicleGenerator.__init__(config): the defaults of set_default_config
\* (rate 100, one template with path [0], a random first spawn time), then
\* the config's vehicle_rate and vehicles, then the first candidate.
DefaultTemplates == << <<1, [path |-> <<0>>, lane |-> 0]>> >>

VehicleGenerator(config, delay, r, id, sample, hmod) ==
    LET base == [vehicle_rate |-> Get(config, "vehicle_rate", 100),
                 vehicles |-> Get(config, "vehicles", DefaultTemplates),
                 last_added_time |-> 0,
                 next_spawn_time |-> delay]
    IN  [vehicle_rate |-> base.vehicle_rate,
         vehicles |-> base.vehicles,
         last_added_time |-> base.last_added_time,
         next_spawn_time |-> base.next_spawn_time,
         upcoming_vehicle |-> PickVehicle(base, r, id, sample, hmod)]

\* --------------------------------------------------------------- Simulation
\* The operators below act on the part of a Simulation that one call can
\* change: w = [vehicles, segments, departures, arrivals].

\* Simulation.add_vehicle(veh) at time now.
SimAddVehicle(w, veh, now) ==
    LET stamped == [veh EXCEPT !.departure_time = now]
    IN  [w EXCEPT
           !.vehicles = (veh.id :> stamped) @@ @,
           !.departures = Append(@, now),
           !.segments = IF Len(veh.path) > 0
                        THEN [@ EXCEPT ![veh.path[1] + 1] =
                                  SegmentAddVehicle(@, veh)]
                        ELSE @]

\* np.random.exponential(60.0 / self.vehicle_rate): the division raises
\* ZeroDivisionError for a rate of 0 and numpy raises ValueError for a
\* negative scale.
RateRaises(gen) == gen.vehicle_rate <= 0

\* Mutant of GeneratorUpdate: a candidate that found no room is kept for
\* the next tick (a backlog) instead of being dropped.
GeneratorUpdateBacklog(w, gen, now, draw) ==
    IF now >= gen.next_spawn_time
    THEN LET cand    == gen.upcoming_vehicle
             segment == w.segments[cand.path[1] + 1]
             chosen  == ChosenLane(w.vehicles, segment, cand)
         IN  [w   |-> IF chosen # NoLane
                      THEN SimAddVehicle(w, [cand EXCEPT !.lane = chosen], now)
                      ELSE w,
              gen |-> [gen EXCEPT
                         !.upcoming_vehicle =
                             IF chosen # NoLane
                             THEN PickVehicle(gen, draw.r, draw.id, draw.sample, draw.hmod)
                             ELSE @,
                         !.last_added_time = now,
                         !.next_spawn_time =
                             IF RateRaises(gen) THEN @ ELSE now + draw.delay],
              raised |-> RateRaises(gen)]
    ELSE [w |-> w, gen |-> gen, raised |-> FALSE]

\* VehicleGenerator.update(simulation): returns the changed simulation part
\* and the changed generator.  draw = [delay, r, id, sample, hmod] are the
\* random draws of the call.  The last line of the method raises for a
\* rate that is not positive: the lines before it have run, the spawn time
\* is not rescheduled, and the exception leaves Simulation.update.
GeneratorUpdate(w, gen, now, draw) ==
    IF now >= gen.next_spawn_time
    THEN LET cand    == gen.upcoming_vehicle
             segment == w.segments[cand.path[1] + 1]
             chosen  == ChosenLane(w.vehicles, segment, cand)
         IN  [w   |-> IF chosen # NoLane
                      THEN SimAddVehicle(w, [cand EXCEPT !.lane = chosen], now)
                      ELSE w,
              gen |-> [gen EXCEPT
                         !.upcoming_vehicle =
                             PickVehicle(gen, draw.r, draw.id, draw.sample, draw.hmod),
                         !.last_added_time = now,
                         !.next_spawn_time =
                             IF RateRaises(gen) THEN @ ELSE now + draw.delay],
              raised |-> RateRaises(gen)]
    ELSE [w |-> w, gen |-> gen, raised |-> FALSE]

\* The dynamics loops of Simulation.update.  The table is updated in place,
\* one Vehicle.update call after the other; st = [vs, log] is the table so
\* far and, per vehicle, a record of the calls made on it in this step:
\* how many, with which leader (NoId for None), and the leader's x and v as
\* that call read them.
NoId == 0

NoCall == [count |-> 0, lead |-> NoId, lead_x |-> 0, lead_v |-> 0]

\* Mutant of LeadVehicle: the leader as it was when the step began.
LeadVehiclePreStep(vs, queue, pos) == vehicles[queue[pos - 1]]

\* lead_vehicle = self.vehicles[segment.vehicles[idx - 1]], read from the
\* table as it is when the follower is updated.
LeadVehicle(vs, queue, pos) == vs[queue[pos - 1]]

\* One call self.vehicles[id].update(lead, dt).
UpdateCall(st, id, leadId, lead, step) ==
    [vs  |-> [st.vs EXCEPT ![id] = VehicleUpdate(@, lead, step)],
     log |-> [st.log EXCEPT ![id] =
                [count |-> @.count + 1, lead |-> leadId,
                 lead_x |-> IF HasLead(lead) THEN lead.x ELSE 0,
                 lead_v |-> IF HasLead(lead) THEN lead.v ELSE 0]]]

\* Mutant of FollowerPositions: the range stops one entry early.
FollowerPositionsShort(queue) == 2..(Len(queue) - 1)

\* range(1, len(segment.vehicles)), as 1-based positions of the queue.
FollowerPositions(queue) == 2..Len(queue)

\* The followers of one queue from position pos on, leader first.
RECURSIVE UpdateFollowers(_, _, _, _)
UpdateFollowers(st, queue, pos, step) ==
    IF pos \notin FollowerPositions(queue) THEN st
    ELSE UpdateFollowers(
             UpdateCall(st, queue[pos], queue[pos - 1],
                        LeadVehicle(st.vs, queue, pos), step),
             queue, pos + 1, step)

\* One segment: the head with no leader, then the followers.
UpdateSegment(st, queue, step) ==
    IF queue = <<>> THEN st
    ELSE UpdateFollowers(UpdateCall(st, queue[1], NoId, NoLead, step), queue, 2, step)

\* "for segment in self.segments" of the dynamics phase, from segment k on.
RECURSIVE UpdateSegments(_, _, _, _)
UpdateSegments(st, segs, k, step) ==
    IF k > Len(segs) THEN st
    ELSE UpdateSegments(UpdateSegment(st, segs[k].vehicles, step), segs, k + 1, step)

\* Mutant of HandleExit: the arrival is stamped and logged at every boundary
\* the vehicle crosses (the "is None" test is missing).
HandleExitStampsEach(w, k, now) ==
    LET segment    == w.segments[k]
        vehicle_id == Head(segment.vehicles)
        vehicle    == w.vehicles[vehicle_id]
        more       == vehicle.current_road_index + 1 < Len(vehicle.path)
        index      == IF more THEN vehicle.current_road_index + 1
                      ELSE vehicle.current_road_index
        appended   == IF more
                      THEN [w.segments EXCEPT
                              ![vehicle.path[index + 1] + 1].vehicles =
                                  Append(@, vehicle_id)]
                      ELSE w.segments
    IN  IF vehicle.x >= GetLength(segment)
        THEN [w EXCEPT
                !.vehicles[vehicle_id] =
                    [@ EXCEPT !.arrival_time = now,
                              !.current_road_index = index,
                              !.x = 0],
                !.arrivals = Append(@, now),
                !.segments = [appended EXCEPT ![k].vehicles = Tail(@)]]
        ELSE w

\* Mutant of HandleExit: the identifier is put at the head of the next
\* segment's queue (appendleft) instead of its tail.
HandleExitPrepends(w, k, now) ==
    LET segment    == w.segments[k]
        vehicle_id == Head(segment.vehicles)
        vehicle    == w.vehicles[vehicle_id]
        more       == vehicle.current_road_index + 1 < Len(vehicle.path)
        index      == IF more THEN vehicle.current_road_index + 1
                      ELSE vehicle.current_road_index
        popped     == [w.segments EXCEPT ![k].vehicles = Tail(@)]
    IN  IF vehicle.x >= GetLength(segment)
        THEN [w EXCEPT
                !.vehicles[vehicle_id] =
                    [@ EXCEPT !.arrival_time =
                                  IF @ = NoTime THEN now ELSE @,
                              !.current_road_index = index,
                              !.x = 0],
                !.arrivals = IF vehicle.arrival_time = NoTime
                             THEN Append(@, now) ELSE @,
                !.segments = IF more
                             THEN [popped EXCEPT
                                     ![vehicle.path[index + 1] + 1].vehicles =
                                         <<vehicle_id>> \o @]
                             ELSE popped]
        ELSE w

\* Mutant of HandleExit: the head is handed over but not taken off its
\* queue.
HandleExitNoPop(w, k, now) ==
    LET segment    == w.segments[k]
        vehicle_id == Head(segment.vehicles)
        vehicle    == w.vehicles[vehicle_id]
        more       == vehicle.current_road_index + 1 < Len(vehicle.path)
        index      == IF more THEN vehicle.current_road_index + 1
                      ELSE vehicle.current_road_index
        appended   == IF more
                      THEN [w.segments EXCEPT
                              ![vehicle.path[index + 1] + 1].vehicles =
                                  Append(@, vehicle_id)]
                      ELSE w.segments
    IN  IF vehicle.x >= GetLength(segment)
        THEN [w EXCEPT
                !.vehicles[vehicle_id] =
                    [@ EXCEPT !.arrival_time =
                                  IF @ = NoTime THEN now ELSE @,
                              !.current_road_index = index,
                              !.x = 0],
                !.arrivals = IF vehicle.arrival_time = NoTime
                             THEN Append(@, now) ELSE @,
                !.segments = appended]
        ELSE w

\* The exit branch for the head of segment k (1-based) at time now.
HandleExit(w, k, now) ==
    LET segment    == w.segments[k]
        vehicle_id == Head(segment.vehicles)
        vehicle    == w.vehicles[vehicle_id]
        more       == vehicle.current_road_index + 1 < Len(vehicle.path)
        index      == IF more THEN vehicle.current_road_index + 1
                      ELSE vehicle.current_road_index
        appended   == IF more
                      THEN [w.segments EXCEPT
                              ![vehicle.path[index + 1] + 1].vehicles =
                                  Append(@, vehicle_id)]
                      ELSE w.segments
    IN  IF vehicle.x >= GetLength(segment)
        THEN [w EXCEPT
                !.vehicles[vehicle_id] =
                    [@ EXCEPT !.arrival_time =
                                  IF @ = NoTime THEN now ELSE @,
                              !.current_road_index = index,
                              !.x = 0],
                !.arrivals = IF vehicle.arrival_time = NoTime
                             THEN Append(@, now) ELSE @,
                !.segments = [appended EXCEPT ![k].vehicles = Tail(@)]]
        ELSE w

\* The lane-change condition of the loop for one queue entry.
LaneTrigger(segment, veh) ==
    segment.num_lanes > 1 /\ veh.v > 0 /\ HashHit(veh)

\* "for veh_id in segment.vehicles": the simple lane change, over the queue
\* entries from position pos on.
RECURSIVE LaneChanges(_, _, _)
LaneChanges(w, k, pos) ==
    LET queue == w.segments[k].vehicles
    IN  IF pos > Len(queue) THEN w
        ELSE LaneChanges(
                 IF LaneTrigger(w.segments[k], w.vehicles[queue[pos]])
                 THEN [w EXCEPT !.vehicles[queue[pos]] = ChangeLane(@, 1)]
                 ELSE w,
                 k, pos + 1)

\* The body of "for segment in self.segments" of the exit phase, for
\* segment k: an empty segment is skipped (continue).
ExitAndLaneChange(w, k, now) ==
    IF w.segments[k].vehicles = <<>> THEN w
    ELSE LaneChanges(HandleExit(w, k, now), k, 1)

\* ------------------------------------------------------------ the scenario
\* Simulation.dt, an attribute the caller may set (1/60 by default).
DtSet == {2, 4}

\* np.random.exponential(60.0 / vehicle_rate): a non-negative delay.
Delays == {1, 5}

\* create_segment(*points, num_lanes): the road network set up before the
\* first step: segment 0 with two lanes, segment 1 with one.
Networks ==
    { << Segment(<< <<0, 0>>, <<30, 0>> >>, 2),
         Segment(<< <<30, 0>>, <<30, 20>> >>, 1) >> }

\* create_vehicle_generator(vehicles=[(weight, config), ...])
GeneratorConfig ==
    [vehicle_rate |-> 60,
     vehicles |-> << <<1, [path |-> <<0, 1>>, v |-> 10, lane |-> 0]>>,
                     <<1, [path |-> <<1, 0>>, v |-> 2, lane |-> 1]>>,
                     <<1, [path |-> <<1>>, stopped |-> TRUE, lane |-> 2]>> >>]

\* create_vehicle(**kwargs): the configurations a caller passes.
CreateConfigs ==
    { [path |-> <<1, 0>>, v |-> 12],
      [path |-> <<0, 1>>, v |-> 2, lane |-> 1] }

\* The part of the Simulation one call can change.
World == [vehicles |-> vehicles, segments |-> segments,
          departures |-> departures, arrivals |-> arrivals]

Queues(segs) == [k \in 1..Len(segs) |-> segs[k].vehicles]

Queued(segs) == UNION {Range(segs[k].vehicles) : k \in 1..Len(segs)}

NoTick == [fired |-> FALSE, gen |-> 0, cand |-> NoId, inserted |-> FALSE,
           segment |-> 0, lane |-> NoLane]

\* No Vehicle is driven on its own and no curve is probed.
NoCar ==
    /\ car = <<>>
    /\ max_lanes = 0
    /\ lane_occupancy = <<>>
    /\ updateCount = 0
    /\ sinceChange = 0

NoCurve ==
    /\ curve = <<>>
    /\ call = [op |-> "none"]
    /\ result = <<>>

\* Simulation.__init__, then the set-up calls create_segment and
\* create_vehicle_generator.
Init ==
    /\ segments \in Networks
    /\ vehicles = <<>>
    /\ \E delay \in Delays, sample \in Samples, hmod \in HashMods,
          r \in 1..TotalWeight(GeneratorConfig.vehicles) :
          vehicle_generator =
              << VehicleGenerator(GeneratorConfig, delay, r, 1, sample, hmod) >>
    /\ nextId = 2
    /\ t = 0
    /\ frame_count = 0
    /\ dt \in DtSet
    /\ departures = <<>>
    /\ arrivals = <<>>
    /\ pc = "idle"
    /\ idx = 1
    /\ stepStart = [vehicles |-> <<>>, queues |-> Queues(segments)]
    /\ dynLog = <<>>
    /\ exitDone = {}
    /\ laneEvald = {}
    /\ handedOver = {}
    /\ lastTick = NoTick
    /\ discarded = {}
    /\ depIds = <<>>
    /\ arrIds = <<>>
    /\ wasFollower = {}
    /\ NoCar
    /\ NoCurve

\* The model constructs at most MaxId Vehicle objects: a step is taken only
\* if no generator is due in it or a fresh id is left for each candidate
\* the step may draw.
CanStep ==
    \/ \A g \in 1..Len(vehicle_generator) : t < vehicle_generator[g].next_spawn_time
    \/ nextId + Len(vehicle_generator) - 1 <= MaxId

\* Simulation.create_vehicle(**kwargs), called between two steps.
CreateVehicle ==
    /\ pc = "idle"
    /\ nextId <= MaxId
    /\ \E config \in CreateConfigs, sample \in Samples, hmod \in HashMods :
          LET veh == Vehicle(config, nextId, sample, hmod)
              w   == SimAddVehicle(World, veh, t)
          IN  /\ vehicles' = w.vehicles
              /\ segments' = w.segments
              /\ departures' = w.departures
    /\ depIds' = Append(depIds, nextId)
    /\ nextId' = nextId + 1
    /\ UNCHANGED << vehicle_generator, t, frame_count, dt, arrivals, pc, idx,
                    hist, discarded, arrIds, wasFollower, carVars, curveVars >>

\* Simulation.update, lines 75-81: the dynamics of every segment.
Dynamics ==
    /\ pc = "idle"
    /\ frame_count < MaxSteps
    /\ CanStep
    /\ LET st == UpdateSegments(
                     [vs |-> vehicles, log |-> [id \in DOMAIN vehicles |-> NoCall]],
                     segments, 1, dt)
       IN  /\ vehicles' = st.vs
           /\ dynLog' = st.log
           /\ wasFollower' = wasFollower \cup
                                {id \in DOMAIN st.log : st.log[id].lead # NoId}
    /\ stepStart' = [vehicles |-> vehicles, queues |-> Queues(segments)]
    /\ exitDone' = {}
    /\ laneEvald' = {}
    /\ handedOver' = {}
    /\ lastTick' = NoTick
    /\ pc' = "exit"
    /\ idx' = 1
    /\ UNCHANGED << segments, vehicle_generator, t, frame_count, dt, departures,
                    arrivals, nextId, discarded, depIds, arrIds, carVars,
                    curveVars >>

\* Simulation.update, lines 83-105: one pass of the exit loop, for the
\* segment at position idx.
ExitSegment ==
    /\ pc = "exit"
    /\ idx <= Len(segments)
    /\ LET w    == ExitAndLaneChange(World, idx, t)
           head == IF segments[idx].vehicles = <<>> THEN NoId
                   ELSE Head(segments[idx].vehicles)
           left == head # NoId /\ w.segments[idx].vehicles # segments[idx].vehicles
       IN  /\ vehicles' = w.vehicles
           /\ segments' = w.segments
           /\ arrivals' = w.arrivals
           /\ arrIds' = IF Len(w.arrivals) > Len(arrivals)
                        THEN Append(arrIds, head) ELSE arrIds
           /\ handedOver' =
                 handedOver \cup
                 { [id |-> head, from |-> idx, to |-> k] :
                     k \in {j \in 1..Len(segments) :
                              /\ left
                              /\ head \in Range(w.segments[j].vehicles)
                              /\ w.vehicles[head].current_road_index
                                     # vehicles[head].current_road_index} }
           /\ laneEvald' = laneEvald \cup Range(w.segments[idx].vehicles)
    /\ exitDone' = exitDone \cup {idx}
    /\ IF idx < Len(segments)
       THEN pc' = "exit" /\ idx' = idx + 1
       ELSE pc' = "gen" /\ idx' = 1
    /\ UNCHANGED << vehicle_generator, t, frame_count, dt, departures, nextId,
                    stepStart, dynLog, lastTick, discarded, depIds, wasFollower,
                    carVars, curveVars >>

\* The random draws one call of VehicleGenerator.update makes: a delay, the
\* defaults of the new Vehicle, its hash and the template draw r.  A call
\* before the spawn time draws nothing (one fixed tuple stands for "none").
TickDraws(gen, now) ==
    LET all == Delays \X Samples \X HashMods \X (1..TotalWeight(gen.vehicles))
    IN  IF now >= gen.next_spawn_time THEN all
        ELSE {CHOOSE d \in all : TRUE}

\* Simulation.update, lines 107-109: gen.update(self) for the generator at
\* position idx, with the random draws of that call.
GeneratorTick ==
    /\ pc = "gen"
    /\ idx <= Len(vehicle_generator)
    /\ \E draws \in TickDraws(vehicle_generator[idx], t) :
          LET delay  == draws[1]
              sample == draws[2]
              hmod   == draws[3]
              r      == draws[4]
              gen    == vehicle_generator[idx]
              cand == gen.upcoming_vehicle
              draw == [delay |-> delay, r |-> r, id |-> nextId,
                       sample |-> sample, hmod |-> hmod]
              res  == GeneratorUpdate(World, gen, t, draw)
              drew == res.gen.upcoming_vehicle.id # cand.id
              ins  == cand.id \in DOMAIN res.w.vehicles
          IN  /\ vehicles' = res.w.vehicles
              /\ segments' = res.w.segments
              /\ departures' = res.w.departures
              /\ vehicle_generator' = [vehicle_generator EXCEPT ![idx] = res.gen]
              /\ nextId' = IF drew THEN nextId + 1 ELSE nextId
              /\ depIds' = IF Len(res.w.departures) > Len(departures)
                           THEN Append(depIds, cand.id) ELSE depIds
              /\ discarded' = IF drew /\ ~ins THEN discarded \cup {cand.id}
                              ELSE discarded
              /\ lastTick' = [fired |-> t >= gen.next_spawn_time,
                              gen |-> idx,
                              cand |-> cand.id,
                              inserted |-> ins,
                              segment |-> cand.path[1] + 1,
                              lane |-> IF ins THEN res.w.vehicles[cand.id].lane
                                       ELSE NoLane]
              /\ IF res.raised
                 THEN pc' = "raised" /\ idx' = idx
                 ELSE IF idx < Len(vehicle_generator)
                      THEN pc' = "gen" /\ idx' = idx + 1
                      ELSE pc' = "end" /\ idx' = 1
    /\ UNCHANGED << t, frame_count, dt, arrivals, stepStart, dynLog, exitDone,
                    laneEvald, handedOver, arrIds, wasFollower, carVars,
                    curveVars >>

\* Simulation.update, lines 111-112: the clock and the frame counter.
EndStep ==
    /\ pc = "end"
    /\ t' = t + dt
    /\ frame_count' = frame_count + 1
    /\ pc' = "idle"
    /\ UNCHANGED << segments, vehicles, vehicle_generator, dt, departures,
                    arrivals, idx, nextId, hist, discarded, depIds, arrIds,
                    wasFollower, carVars, curveVars >>

Next == CreateVehicle \/ Dynamics \/ ExitSegment \/ GeneratorTick \/ EndStep

Spec == Init /\ [][Next]_vars

\* ------------------------------------------------- set-up calls at large
\* Segment.__init__ and VehicleGenerator.__init__ store num_lanes and
\* vehicle_rate as given: the constructors test nothing and raise nothing,
\* so the set-up calls below all return an object.
LaneCounts == {-1, 0, 2}

VehicleRates == {-60, 0, 60}

\* create_segment(*points, num_lanes=n) for segment 0.
SetupNetworks ==
    { << Segment(<< <<0, 0>>, <<30, 0>> >>, n),
         Segment(<< <<30, 0>>, <<30, 20>> >>, 1) >> : n \in LaneCounts }

\* create_vehicle_generator(vehicle_rate=rate, vehicles=[...]); the first
\* template's itinerary takes segment 1 twice in a row.
SetupGeneratorConfig(rate) ==
    [vehicle_rate |-> rate,
     vehicles |-> << <<1, [path |-> <<1, 1>>, v |-> 12]>>,
                     <<1, [path |-> <<0, 1>>, v |-> 10, lane |-> 0]>> >>]

\* Simulation.__init__, then create_segment for one of the networks and
\* create_vehicle_generator for one of the configs, with dt set to one of
\* steps.
SetupInit(networks, configs, steps) ==
    /\ segments \in networks
    /\ vehicles = <<>>
    /\ \E config \in configs :
          \E delay \in Delays, sample \in Samples, hmod \in HashMods,
             r \in 1..TotalWeight(config.vehicles) :
             vehicle_generator =
                 << VehicleGenerator(config, delay, r, 1, sample, hmod) >>
    /\ nextId = 2
    /\ t = 0
    /\ frame_count = 0
    /\ dt \in steps
    /\ departures = <<>>
    /\ arrivals = <<>>
    /\ pc = "idle"
    /\ idx = 1
    /\ stepStart = [vehicles |-> <<>>, queues |-> Queues(segments)]
    /\ dynLog = <<>>
    /\ exitDone = {}
    /\ laneEvald = {}
    /\ handedOver = {}
    /\ lastTick = NoTick
    /\ discarded = {}
    /\ depIds = <<>>
    /\ arrIds = <<>>
    /\ wasFollower = {}
    /\ NoCar
    /\ NoCurve

\* Any lane count for segment 0 and any rate for the generator.
InitSetup ==
    SetupInit(SetupNetworks,
              {SetupGeneratorConfig(rate) : rate \in VehicleRates}, DtSet)

SpecSetup == InitSetup /\ [][Next]_vars

\* ------------------------------------------------ a Vehicle on its own
\* max_lanes of the calls, the cooldown periods and the Vehicle configs.
LaneCountsOfCalls == 1..3

Cooldowns == {1, 6}

CarConfigs(lanes) ==
    { [lane |-> ln, lane_change_cooldown |-> cooldown, s0 |-> 3, v |-> 0,
       x |-> 10] : ln \in 0..(lanes - 1), cooldown \in Cooldowns }

\* What the caller's snapshot holds of an occupant: the attributes the
\* procedure reads.
Occupant(id, x) == [id |-> id, x |-> x, l |-> 4, v |-> 0]

\* The lists a lane of lane_occupancy may hold: none, an occupant inside
\* the safety gap, one 8 m ahead, the Vehicle itself and one 16 m ahead.
LaneLists(self) ==
    { <<>>,
      << Occupant(2, self.x + 2) >>,
      << Occupant(3, self.x + 8) >>,
      << Occupant(self.id, self.x), Occupant(4, self.x + 16) >> }

\* The lane_occupancy dicts over the lanes of the road: a lane with no
\* occupant has no key.
Occupancies(self, lanes) ==
    { [ln \in {k \in DOMAIN f : f[k] # <<>>} |-> f[ln]] :
        f \in [0..(lanes - 1) -> LaneLists(self)] }

\* No Simulation is set up; dt is the step of the lone Vehicle's updates.
NoSimulation(step) ==
    /\ segments = <<>>
    /\ vehicles = <<>>
    /\ vehicle_generator = <<>>
    /\ nextId = 2
    /\ t = 0
    /\ frame_count = 0
    /\ dt = step
    /\ departures = <<>>
    /\ arrivals = <<>>
    /\ pc = "idle"
    /\ idx = 1
    /\ stepStart = [vehicles |-> <<>>, queues |-> <<>>]
    /\ dynLog = <<>>
    /\ exitDone = {}
    /\ laneEvald = {}
    /\ handedOver = {}
    /\ lastTick = NoTick
    /\ discarded = {}
    /\ depIds = <<>>
    /\ arrIds = <<>>
    /\ wasFollower = {}

\* Vehicle(config) in a lane of the road its caller knows.
InitCar ==
    /\ NoSimulation(2)
    /\ NoCurve
    /\ max_lanes \in LaneCountsOfCalls
    /\ \E config \in CarConfigs(max_lanes), sample \in Samples :
          car = Vehicle(config, 1, sample, 1)
    /\ lane_occupancy = <<>>
    /\ updateCount = 0
    /\ sinceChange = [moves |-> 0, updates |-> 0]

\* One call car.update_lane_decision(max_lanes, lane_occupancy).
LaneDecision ==
    /\ \E occupancy \in Occupancies(car, max_lanes) :
          /\ lane_occupancy' = occupancy
          /\ car' = UpdateLaneDecision(car, max_lanes, occupancy)
    /\ sinceChange' = IF car'.lane # car.lane
                      THEN [moves |-> sinceChange.moves + 1, updates |-> 0]
                      ELSE sinceChange
    /\ UNCHANGED << max_lanes, updateCount, simVars, curveVars >>

\* One call car.update(None, dt).
CarUpdate ==
    /\ updateCount < MaxSteps
    /\ car' = VehicleUpdate(car, NoLead, dt)
    /\ updateCount' = updateCount + 1
    /\ sinceChange' = [sinceChange EXCEPT !.updates = @ + 1]
    /\ UNCHANGED << max_lanes, lane_occupancy, simVars, curveVars >>

NextCar == LaneDecision \/ CarUpdate

SpecCar == InitCar /\ [][NextCar]_vars

\* --------------------------------------------------- a curve on its own
\* A curve segment is [cells, length]: progress runs over the grid
\* 0..One, cells[i] is the integral of abs_f over the i-th cell of it (a
\* square root, so never negative) and length is what get_length returns:
\* the arc length, or the longer polyline through the control points.
Curves ==
    { [cells |-> cells, length |-> SumSeq(cells) + extra] :
        cells \in { <<1, 1, 1, 1, 1, 1, 1, 1>>,
                    <<0, 0, 1, 1, 1, 0, 1, 1>>,
                    <<1, 1, 0, 0, 0, 0, 0, 1>>,
                    <<0, 0, 0, 0, 0, 0, 0, 0>> },
        extra \in {0, 2, 8} }

\* The arguments of the calls: target lengths, tolerances (no cell is
\* longer than a tolerance, as no stretch of a curve is too long for a
\* real-valued probe to land in), resolutions.
TargetLengths == -3..9

Tolerances == {1, 2}

Resolutions == 2..5

InitCurve ==
    /\ NoSimulation(2)
    /\ NoCar
    /\ curve \in Curves
    /\ call = [op |-> "none"]
    /\ result = <<>>

\* One call curve.find_t(a, L, epsilon).
CallFindT ==
    /\ \E a \in 0..One(curve), L \in TargetLengths, epsilon \in Tolerances :
          /\ call' = [op |-> "find_t", a |-> a, L |-> L, epsilon |-> epsilon]
          /\ result' = FindT(curve, a, L, epsilon)
    /\ UNCHANGED << curve, simVars, carVars >>

\* One call curve.find_normalized_path(n).
CallFindNormalizedPath ==
    /\ \E n \in Resolutions :
          /\ call' = [op |-> "find_normalized_path", n |-> n]
          /\ result' = FindNormalizedPath(curve, n)
    /\ UNCHANGED << curve, simVars, carVars >>

NextCurve == CallFindT \/ CallFindNormalizedPath

SpecCurve == InitCurve /\ [][NextCurve]_vars

\* ------------------------------------------------- the looping itinerary
\* The network of Spec with a generator whose first template comes round
\* to segment 1 again, at the smaller time step.
InitLoop == SetupInit(Networks, {SetupGeneratorConfig(60)}, {2})

SpecLoop == InitLoop /\ [][Next]_vars

\* ================================================================== claims
Count(seq, e) == Cardinality({i \in 1..Len(seq) : seq[i] = e})

\* A vehicle with an itinerary is in a queue from add_vehicle until it leaves
\* the last segment of its itinerary.
Completed(id) ==
    /\ id \in DOMAIN vehicles
    /\ Len(vehicles[id].path) > 0
    /\ id \notin Queued(segments)

\* The step is past its dynamics phase and nothing else has run yet.
AfterDynamics == pc = "exit" /\ idx = 1

InStep == pc \in {"exit", "gen", "end"}

\* The position of id in the queues the step began with: <<k, i>>.
StartPlaces(id) ==
    { <<k, i>> \in (1..Len(stepStart.queues)) \X (1..MaxId) :
          i <= Len(stepStart.queues[k]) /\ stepStart.queues[k][i] = id }

\* C1: every vehicle that has completed its itinerary has arrival_time
\* strictly greater than departure_time, exactly one entry in the
\* departures log and exactly one entry in the arrivals log.
C1_TimestampsOnceAndOrdered ==
    \A id \in DOMAIN vehicles :
        Completed(id) =>
            /\ vehicles[id].arrival_time > vehicles[id].departure_time
            /\ Count(depIds, id) = 1
            /\ Count(arrIds, id) = 1

\* C2: a vehicle with more than one segment in its itinerary has no
\* arrival_time, and no entry in the arrivals log, while it is still on a
\* segment (it has a segment left to traverse).
C2_ArrivalOnlyWhenExhausted ==
    \A id \in DOMAIN vehicles :
        (Len(vehicles[id].path) > 1 /\ id \in Queued(segments)) =>
            /\ vehicles[id].arrival_time = NoTime
            /\ Count(arrIds, id) = 0

\* Consecutive queue entries of segment k at positions i - 1 and i keep the
\* safe gap.
GapKept(k, i) ==
    LET leader   == vehicles[segments[k].vehicles[i - 1]]
        follower == vehicles[segments[k].vehicles[i]]
    IN  follower.x <= leader.x - leader.l - follower.s0

\* C3: immediately after the dynamics phase, every follower is at or behind
\* leader.x - leader.l - follower.s0, for every dt and every pair of lanes.
C3_NonInterpenetration ==
    AfterDynamics =>
        \A k \in 1..Len(segments) :
            \A i \in 2..Len(segments[k].vehicles) : GapKept(k, i)

\* C3 witness: after a dynamics phase, a follower in another lane than its
\* leader was moved by its update and sits exactly on the clamp boundary.
C3_Witness ==
    /\ AfterDynamics
    /\ \E k \in 1..Len(segments) : \E i \in 2..Len(segments[k].vehicles) :
          LET leader   == vehicles[segments[k].vehicles[i - 1]]
              follower == vehicles[segments[k].vehicles[i]]
          IN  /\ leader.lane # follower.lane
              /\ follower.x = leader.x - leader.l - follower.s0
              /\ stepStart.vehicles[follower.id].x # follower.x

\* C4: between two steps every vehicle on a segment has
\* 0 <= x <= the length of that segment.
C4_PositionInRange ==
    pc = "idle" =>
        \A k \in 1..Len(segments) :
            \A i \in 1..Len(segments[k].vehicles) :
                LET veh == vehicles[segments[k].vehicles[i]]
                IN  0 <= veh.x /\ veh.x <= GetLength(segments[k])

\* C5: every vehicle entered with v >= 0, and every vehicle has v >= 0.
C5_VelocityNonNegative ==
    \A id \in DOMAIN vehicles : vehicles[id].v >= 0

\* C5 witness: a dynamics phase in which a vehicle moving at v > 0 with a
\* deceleration that would take it below zero (the new_v < 0 branch) was
\* updated once and came to a halt.
C5_Witness ==
    /\ AfterDynamics
    /\ \E b \in DOMAIN dynLog :
          /\ dynLog[b].count = 1
          /\ stepStart.vehicles[b].v > 0
          /\ stepStart.vehicles[b].v + stepStart.vehicles[b].a * dt < 0
          /\ vehicles[b].v = 0

\* The leader a vehicle is updated with, by the queues the step began with:
\* the preceding entry of its queue, NoId for a head.
StartLeader(id) ==
    LET place == CHOOSE p \in StartPlaces(id) : TRUE
    IN  IF place[2] = 1 THEN NoId ELSE stepStart.queues[place[1]][place[2] - 1]

\* What a single Vehicle.update call makes of the vehicle the step began
\* with, given the leader state that call read.
OneUpdate(id) ==
    LET log  == dynLog[id]
        lead == IF log.lead = NoId THEN NoLead
                ELSE [stepStart.vehicles[log.lead] EXCEPT
                         !.x = log.lead_x, !.v = log.lead_v]
    IN  VehicleUpdate(stepStart.vehicles[id], lead, dt)

\* C6: in a step, every vehicle that was in a queue when the step began is
\* updated exactly once, the head with no leader and every other entry with
\* the preceding entry as leader, and its v and a stay those of that one
\* update for the rest of the step, hand-over included; a vehicle in no
\* queue is not updated.
C6_UpdatedExactlyOnce ==
    InStep =>
        \A id \in DOMAIN stepStart.vehicles :
            LET places  == StartPlaces(id)
                updated == OneUpdate(id)
            IN  IF places # {}
                THEN /\ Cardinality(places) = 1
                     /\ dynLog[id].count = 1
                     /\ dynLog[id].lead = StartLeader(id)
                     /\ vehicles[id].v = updated.v
                     /\ vehicles[id].a = updated.a
                     /\ AfterDynamics => vehicles[id].x = updated.x
                ELSE /\ dynLog[id].count = 0
                     /\ vehicles[id] = stepStart.vehicles[id]

\* C6 witness: the generator phase of a step that began with a queue of
\* two vehicles in different lanes and in which a vehicle was handed over
\* to its next segment.
C6_Witness ==
    /\ pc = "gen"
    /\ handedOver # {}
    /\ \E k \in 1..Len(stepStart.queues) :
          /\ Len(stepStart.queues[k]) >= 2
          /\ stepStart.vehicles[stepStart.queues[k][1]].lane
                # stepStart.vehicles[stepStart.queues[k][2]].lane

\* C7 as stated: every follower's update read the position and velocity its
\* leader had when the step began.
C7_ReadsPreStepLeader ==
    InStep =>
        \A id \in DOMAIN dynLog :
            dynLog[id].lead # NoId =>
                /\ dynLog[id].lead_x = stepStart.vehicles[dynLog[id].lead].x
                /\ dynLog[id].lead_v = stepStart.vehicles[dynLog[id].lead].v

\* C7 amended: every follower's update read the position and velocity its
\* leader has after the leader's own update of the same step.
C7_ReadsUpdatedLeader ==
    AfterDynamics =>
        \A id \in DOMAIN dynLog :
            dynLog[id].lead # NoId =>
                /\ dynLog[id].lead_x = vehicles[dynLog[id].lead].x
                /\ dynLog[id].lead_v = vehicles[dynLog[id].lead].v
                /\ vehicles[id] =
                       VehicleUpdate(stepStart.vehicles[id],
                                     vehicles[dynLog[id].lead], dt)

\* C7 witness: after a dynamics phase, a follower whose leader changed both
\* position and velocity in that phase.
C7_Witness ==
    /\ AfterDynamics
    /\ \E id \in DOMAIN dynLog :
          /\ dynLog[id].lead # NoId
          /\ vehicles[dynLog[id].lead].x # stepStart.vehicles[dynLog[id].lead].x
          /\ vehicles[dynLog[id].lead].v # stepStart.vehicles[dynLog[id].lead].v

\* C8: no vehicle is visited by the lane-change loop before the exit check
\* of every segment has run.
C8_PhasesInOrder ==
    laneEvald # {} => exitDone = 1..Len(segments)

\* The vehicles of segment k (1-based) in lane ln other than id.
LaneMates(k, ln, id) ==
    { m \in Range(segments[k].vehicles) : m # id /\ vehicles[m].lane = ln }

NoRoom(gen) ==
    LET cand == gen.upcoming_vehicle
        k    == cand.path[1] + 1
    IN  \A ln \in 0..(segments[k].num_lanes - 1) :
            LET mates == LaneVehicles(vehicles, segments[k], ln)
            IN  /\ mates # <<>>
                /\ mates[Len(mates)].x <= cand.s0 + cand.l

\* What C10 says of one step taken while the generator loop runs.
C10_TickStep ==
    LET gen    == vehicle_generator[idx]
        genNew == vehicle_generator'[idx]
    IN  pc = "gen" =>
          /\ t < gen.next_spawn_time =>
                UNCHANGED << vehicles, segments, departures, vehicle_generator,
                             discarded >>
          /\ (t >= gen.next_spawn_time /\ NoRoom(gen)) =>
                /\ UNCHANGED << vehicles, segments, departures >>
                /\ genNew.upcoming_vehicle.id # gen.upcoming_vehicle.id
                /\ gen.upcoming_vehicle.id \in discarded'
                /\ genNew.next_spawn_time >= t
          /\ Cardinality(DOMAIN vehicles') <= Cardinality(DOMAIN vehicles) + 1
          /\ Len(departures') <= Len(departures) + 1
          /\ discarded' \cap DOMAIN vehicles' = {}
          /\ \A g \in 1..Len(vehicle_generator') :
                vehicle_generator'[g].upcoming_vehicle.id \notin discarded'

\* C10: a generator tick before the spawn instant changes nothing; a tick
\* that fires with no room leaves the vehicle table, the queues and the
\* departures log unchanged, drops the candidate for a fresh one and
\* schedules the next spawn not earlier than now; a tick inserts at most one
\* vehicle; a dropped candidate is never in the vehicle table and never a
\* generator's candidate again.
C10_GeneratorTick == [][C10_TickStep]_vars

\* C10 witness: a tick fired, found no room and dropped its candidate.
C10_Witness ==
    /\ pc = "end"
    /\ lastTick.fired
    /\ ~lastTick.inserted
    /\ lastTick.cand \in discarded

IsPrefix(s1, s2) ==
    Len(s1) <= Len(s2) /\ \A i \in 1..Len(s1) : s1[i] = s2[i]

NonDecreasing(s1) == \A i \in 2..Len(s1) : s1[i - 1] <= s1[i]

\* The logs against the vehicle table vs.
LogsAgree(vs, deps, arrs) ==
    /\ NonDecreasing(deps)
    /\ NonDecreasing(arrs)
    /\ Len(deps) = Cardinality(DOMAIN vs)
    /\ Len(arrs) = Cardinality({id \in DOMAIN vs : vs[id].arrival_time # NoTime})
    /\ Len(arrs) <= Len(deps)

\* What C14 says of one step of the program.
C14_LogStep ==
    /\ IsPrefix(departures, departures')
    /\ IsPrefix(arrivals, arrivals')
    /\ LogsAgree(vehicles, departures, arrivals)
    /\ LogsAgree(vehicles', departures', arrivals')

\* C14: no step removes or rewrites an entry of the departures or the
\* arrivals log; each log is non-decreasing in time; there are as many
\* departure entries as vehicles in the table and as many arrival entries as
\* vehicles with arrival_time set; the arrivals log is never the longer.
C14_LogsAppendOnly == [][C14_LogStep]_vars

\* C14 witness: two departures at different times and an arrival are
\* logged, and the table holds a vehicle with and one without arrival_time.
C14_Witness ==
    /\ Len(departures) >= 2
    /\ departures[1] < departures[Len(departures)]
    /\ Len(arrivals) >= 1
    /\ \E id \in DOMAIN vehicles : vehicles[id].arrival_time # NoTime
    /\ \E id \in DOMAIN vehicles : vehicles[id].arrival_time = NoTime

\* The head of queue k when the running (or latest) step began is still the
\* head of that queue and has not been handed over since.
StillHead(k) ==
    /\ stepStart.queues[k] # <<>>
    /\ segments[k].vehicles # <<>>
    /\ Head(segments[k].vehicles) = Head(stepStart.queues[k])
    /\ vehicles[Head(stepStart.queues[k])].current_road_index
           = stepStart.vehicles[Head(stepStart.queues[k])].current_road_index

\* C17: a vehicle that was the head of a segment queue when a step began
\* and is still the head of that queue is not behind the position it had
\* when the step began.
C17_HeadMonotone ==
    \A k \in 1..Len(stepStart.queues) :
        StillHead(k) =>
            vehicles[Head(stepStart.queues[k])].x
                >= stepStart.vehicles[Head(stepStart.queues[k])].x

\* C17 witness: a step moved a head that had been a follower before and
\* began the step with the braking acceleration computed against its
\* former leader.
C17_Witness ==
    /\ AfterDynamics
    /\ \E k \in 1..Len(stepStart.queues) :
          /\ StillHead(k)
          /\ Head(stepStart.queues[k]) \in wasFollower
          /\ dynLog[Head(stepStart.queues[k])].lead = NoId
          /\ stepStart.vehicles[Head(stepStart.queues[k])].a < 0
          /\ vehicles[Head(stepStart.queues[k])].x
                 > stepStart.vehicles[Head(stepStart.queues[k])].x


\* The exit branch acts on the head of segment k in this state.
Crossing(k) ==
    /\ segments[k].vehicles # <<>>
    /\ vehicles[Head(segments[k].vehicles)].x >= GetLength(segments[k])

\* What one pass of the exit loop over segment k does to the queues, the
\* positions and the itinerary indices.
HandOver(k) ==
    LET queue == segments[k].vehicles
        head  == Head(queue)
        index == vehicles[head].current_road_index
        more  == index + 1 < Len(vehicles[head].path)
        next  == vehicles[head].path[index + 2] + 1
        rest(j) == IF j = k THEN Tail(queue) ELSE segments[j].vehicles
    IN  IF Crossing(k)
        THEN /\ vehicles'[head].x = 0
             /\ vehicles'[head].current_road_index =
                    IF more THEN index + 1 ELSE index
             /\ \A j \in 1..Len(segments) :
                   segments'[j].vehicles =
                       IF more /\ j = next THEN Append(rest(j), head)
                       ELSE rest(j)
             /\ ~more => head \in DOMAIN vehicles' /\ head \notin Queued(segments')
             /\ \A id \in DOMAIN vehicles \ {head} :
                   /\ vehicles'[id].x = vehicles[id].x
                   /\ vehicles'[id].current_road_index =
                          vehicles[id].current_road_index
        ELSE /\ \A j \in 1..Len(segments) :
                   segments'[j].vehicles = segments[j].vehicles
             /\ \A id \in DOMAIN vehicles :
                   /\ vehicles'[id].x = vehicles[id].x
                   /\ vehicles'[id].current_road_index =
                          vehicles[id].current_road_index

C18_Step ==
    /\ (pc = "exit" /\ exitDone' # exitDone) => HandOver(idx)
    /\ \A id \in DOMAIN vehicles :
          Completed(id) => Completed(id)' /\ vehicles'[id] = vehicles[id]

\* C18: in the transition phase a head at or past the segment length leaves
\* the head of its queue with position 0; with itinerary left its index
\* advances by one and its id goes to the tail of the next segment's queue
\* (the same segment included); with the itinerary exhausted it is in no
\* queue, stays in the table and no later step changes it.  All other
\* queue entries keep their order.
C18_HandOver == [][C18_Step]_vars

\* A head was handed over to the tail of its own segment's queue, behind
\* an entry that was queued after it.
C18_Witness ==
    /\ pc \in {"exit", "gen"}
    /\ \E h \in handedOver :
          LET queue == segments[h.to].vehicles
          IN  /\ h.from = h.to
              /\ Len(queue) >= 2
              /\ queue[Len(queue)] = h.id
              /\ vehicles[h.id].x = 0
              /\ vehicles[h.id].current_road_index = 1

\* C20: every queued vehicle's lane is a lane of the segment it is queued
\* on.
C20_LaneInSegmentRange ==
    \A k \in 1..Len(segments) :
       \A i \in 1..Len(segments[k].vehicles) :
          LET veh == vehicles[segments[k].vehicles[i]]
          IN  0 <= veh.lane /\ veh.lane < segments[k].num_lanes


\* A set-up call left an object the constructors should have refused.
BadConfiguration ==
    \/ \E k \in 1..Len(segments) : segments[k].num_lanes <= 0
    \/ \E g \in 1..Len(vehicle_generator) :
          vehicle_generator[g].vehicle_rate <= 0

\* C13: no segment with a lane count of zero or less and no generator with
\* a rate of zero or less is in a simulation that is being stepped, and no
\* update step raises.
C13_ConfigRejectedAtConstruction ==
    /\ pc # "raised"
    /\ (pc # "idle" \/ frame_count > 0) => ~BadConfiguration


\* The step is one call of the lane decision procedure, lane_occupancy'
\* its argument.  (A call that repeats the arguments of the call before and
\* changes nothing is a stuttering step.)
DecisionStep == updateCount' = updateCount /\ carVars' # carVars

C11_Step ==
    (DecisionStep /\ car.lane \in 0..(max_lanes - 1)) =>
        /\ car'.lane \in 0..(max_lanes - 1)
        /\ Abs(car'.lane - car.lane) <= 1

\* C11: a call of the lane decision procedure on a vehicle whose lane is in
\* [0, max_lanes) returns with the lane in [0, max_lanes) and at most one
\* lane away from the lane before, for every max_lanes >= 1 and every
\* lane_occupancy.
C11_LaneStaysInRange == [][C11_Step]_vars

\* The procedure was called on a vehicle in the top lane, the lane below
\* blocked and the lane index above (not a lane) promising more
\* acceleration, and the vehicle stayed.
C11_Witness ==
    /\ max_lanes >= 2
    /\ car.lane = max_lanes - 1
    /\ updateCount = 0
    /\ sinceChange.moves = 0
    /\ lane_occupancy # <<>>
    /\ ~LaneFree(car, lane_occupancy, car.lane - 1)
    /\ LaneFree(car, lane_occupancy, car.lane + 1)
    /\ AccelIfLane(car, lane_occupancy, car.lane + 1)
          > AccelIfLane(car, lane_occupancy, car.lane)

C12_Step ==
    /\ DecisionStep =>
          /\ car.lane_change_timer > 0 => car' = car
          /\ car'.lane # car.lane =>
                /\ car'.lane_change_timer = car.lane_change_cooldown
                /\ sinceChange.moves > 0 =>
                      sinceChange.updates * dt >= car.lane_change_cooldown
    /\ updateCount' # updateCount =>
          /\ car'.lane = car.lane
          /\ car'.lane_change_timer = Max(0, car.lane_change_timer - dt)

\* C12: a move by the decision procedure sets the timer to the cooldown
\* period; a call with the timer above 0 changes neither lane nor timer;
\* each update takes dt off the timer, floored at 0; so two moves by the
\* procedure are at least cooldown/dt updates apart.
C12_Cooldown == [][C12_Step]_vars

\* The procedure moved the vehicle a second time, three updates of 2 s
\* after the first move with a cooldown of 6 s.
C12_Witness ==
    /\ sinceChange.moves >= 2
    /\ sinceChange.updates = 0
    /\ car.lane_change_cooldown = 6
    /\ car.lane_change_timer = 6
    /\ dt = 2

C19_Step ==
    LET right == car.lane - 1
        gain  == AccelIfLane(car, lane_occupancy', right)
                   - AccelIfLane(car, lane_occupancy', car.lane)
    IN  (/\ DecisionStep
         /\ car.lane_change_timer = 0
         /\ car.lane > 0
         /\ LaneFree(car, lane_occupancy', right)) =>
            IF 2 * gain >= -AccScale
            THEN /\ car'.lane = right
                 /\ car'.lane_change_timer = car.lane_change_cooldown
            ELSE car'.lane # right

\* C19: with the timer at 0, the vehicle not in lane 0 and lane - 1 free,
\* the move to lane - 1 is taken for every gain of -0.5 or more and
\* refused only for a gain below -0.5; a move taken sets the timer and
\* ends the call.
C19_RightThresholdInclusive == [][C19_Step]_vars


\* C15: find_t(a, L, epsilon) returns 1 when the arc length from a to 1 is
\* below L; otherwise it returns a t in [a, 1] whose arc length from a is
\* within epsilon of L, for every a in [0, 1], every L (0 and below 0
\* included) and every epsilon > 0.
C15_FindTReturns ==
    call.op = "find_t" =>
        IF ArcLength(curve, call.a, One(curve)) < call.L
        THEN ~result.diverged /\ result.t = One(curve)
        ELSE /\ ~result.diverged
             /\ result.t \in call.a..One(curve)
             /\ Abs(ArcLength(curve, call.a, result.t) - call.L)
                   <= call.epsilon

Occurrences(id) == SumSeq([k \in 1..Len(segments) |-> Count(segments[k].vehicles, id)])

\* C21: every id in a segment queue is a key of the vehicle table, occurs
\* once over all queues together, and is in the queue of the segment its
\* vehicle's itinerary index points to.
C21_QueueConsistency ==
    \A k \in 1..Len(segments) :
       \A i \in 1..Len(segments[k].vehicles) :
          LET id == segments[k].vehicles[i]
          IN  /\ id \in DOMAIN vehicles
              /\ Occurrences(id) = 1
              /\ vehicles[id].current_road_index < Len(vehicles[id].path)
              /\ vehicles[id].path[vehicles[id].current_road_index + 1] + 1 = k

\* Between two steps a vehicle on the second leg of an itinerary that
\* takes the same segment twice shares that segment's queue with a vehicle
\* on its first leg.
C21_Witness ==
    /\ pc = "idle"
    /\ \E k \in 1..Len(segments) :
          \E back, first \in Range(segments[k].vehicles) :
             /\ vehicles[back].current_road_index = 1
             /\ vehicles[back].path[1] = vehicles[back].path[2]
             /\ vehicles[first].current_road_index = 0

====
